---- MODULE Spec2Model ----
(***************************************************************************)
(* Camera-lidar extrinsic calibrator (calibration/camera_lidar_calibrator). *)
(*                                                                         *)
(* The calibrator object is modelled as a state machine: its attributes    *)
(* (tau, R, T, the three derived tables, tau_preoptimize, ...) are the     *)
(* variables, and every method or callback the optimizer drives is one     *)
(* action.  numpy arrays are heap objects, so that two attributes bound to *)
(* the same array (self.tau_preoptimize = self.tau) share its contents.    *)
(*                                                                         *)
(* Numbers live on an integer lattice.  Rotation components count quarter  *)
(* turns (the angles at which cv2.Rodrigues yields an integer matrix),     *)
(* translations and point coordinates are integers, pixel coordinates are  *)
(* exact fractions.                                                        *)
(***************************************************************************)
EXTENDS Integers, Sequences, FiniteSets, TLC

(***************************************************************************)
(* Bounds of the model.                                                    *)
(***************************************************************************)
\* image width and height (self.img_detector.img_w, img_h)
ImgW == 4
ImgH == 3
\* Nelder-Mead iterations after the initial simplex (maxiter, 600 in the code)
MaxIter == 2
\* optimize calls (ls_optimize, ls_optimize_translation) in one run
MaxCalls == 1
\* restarts followed after a caught BadProjection
MaxRestarts == 3
\* confirmations ('y' presses) of one run of select_correspondences
MaxConfirm == 4

(***************************************************************************)
(* Exact fractions n/d.  d = 0 stands for the values numpy's float         *)
(* division gives on a zero divisor: inf (n = 1), -inf (n = -1), nan (0).  *)
(***************************************************************************)
Abs(a) == IF a < 0 THEN -a ELSE a

Sign(a) == IF a > 0 THEN 1 ELSE IF a < 0 THEN -1 ELSE 0

RECURSIVE GCD(_, _)
GCD(a, b) == IF b = 0 THEN a ELSE GCD(b, a % b)

\* a / b as numpy divides floats
Frac(a, b) ==
    IF b = 0 THEN [n |-> Sign(a), d |-> 0]
    ELSE LET g == GCD(Abs(a), Abs(b))
         IN  [n |-> (Sign(b) * a) \div g, d |-> Abs(b) \div g]

\* q >= 0 (False on nan)
FracGeqZero(q) == IF q.d = 0 THEN q.n = 1 ELSE q.n >= 0

\* q <= w for an integer w (False on nan)
FracLeqInt(q, w) == IF q.d = 0 THEN q.n = -1 ELSE q.n <= w * q.d

\* an integer as a fraction
FracInt(a) == [n |-> a, d |-> 1]

\* a + b on floats: inf absorbs, inf - inf and nan give nan
FracAdd(a, b) ==
    IF a.d = 0 /\ b.d = 0 THEN [n |-> IF a.n = b.n THEN a.n ELSE 0, d |-> 0]
    ELSE IF a.d = 0 THEN a
    ELSE IF b.d = 0 THEN b
    ELSE Frac(a.n * b.d + b.n * a.d, a.d * b.d)

\* a * b on floats: inf * 0 and nan give nan
FracMul(a, b) ==
    IF a.d = 0 \/ b.d = 0 THEN [n |-> Sign(a.n) * Sign(b.n), d |-> 0]
    ELSE Frac(a.n * b.n, a.d * b.d)

FracAbs(a) == [n |-> Abs(a.n), d |-> a.d]

\* a / m for a count m: numpy's float division, 0/0 = nan; Python's own
\* division of two ints is told apart where it is used
FracDivInt(a, m) ==
    IF a.d = 0 THEN a
    ELSE IF m = 0 THEN [n |-> Sign(a.n), d |-> 0]
    ELSE Frac(a.n, a.d * m)

\* floor of a finite fraction: astype(np.int) on a non-negative float
FracFloor(a) == a.n \div a.d

RECURSIVE FracSum(_)
\* the sum of a sequence of fractions, left to right from 0
FracSum(qs) ==
    IF qs = <<>> THEN FracInt(0)
    ELSE FracAdd(FracSum(SubSeq(qs, 1, Len(qs) - 1)), qs[Len(qs)])

(***************************************************************************)
(* Numbers c * sqrt(W^2 + H^2) + q with an integer c and a fraction q: the *)
(* values the correspondence cost takes.                                   *)
(***************************************************************************)
\* img_w**2 + img_h**2
DiagSq == ImgW * ImgW + ImgH * ImgH

Surd(c, q) == [root |-> c, rat |-> q]

SurdAdd(a, b) == Surd(a.root + b.root, FracAdd(a.rat, b.rat))

\* a * m for an integer m
SurdScale(a, m) == Surd(a.root * m, FracMul(a.rat, FracInt(m)))

\* whether the two numbers are the same real
SurdEq(a, b) ==
    IF \E s \in 0..DiagSq : s * s = DiagSq
    THEN LET s == CHOOSE r \in 0..DiagSq : r * r = DiagSq
         IN  FracAdd(a.rat, FracInt(a.root * s)) = FracAdd(b.rat, FracInt(b.root * s))
    ELSE a = b

\* a < 0 for a = c * sqrt(DiagSq) + q with c <= 0 and a finite q
SurdNegative(a) ==
    /\ a.rat.d # 0
    /\ \/ a.rat.n < 0
       \/ a.rat.n = 0 /\ a.root < 0
       \/ a.rat.n * a.rat.n < a.root * a.root * DiagSq * a.rat.d * a.rat.d

(***************************************************************************)
(* 3-vectors and 3x3 matrices.                                             *)
(***************************************************************************)
Dot(u, v) == u[1] * v[1] + u[2] * v[2] + u[3] * v[3]

MatVec(M, v) == <<Dot(M[1], v), Dot(M[2], v), Dot(M[3], v)>>

Col(M, j) == <<M[1][j], M[2][j], M[3][j]>>

MatMul(A, B) ==
    [i \in 1..3 |-> [j \in 1..3 |-> Dot(A[i], Col(B, j))]]

VecAdd(u, v) == [i \in 1..Len(u) |-> u[i] + v[i]]

\* cosine and sine of q quarter turns
Cos4(q) == CASE q % 4 = 0 -> 1 [] q % 4 = 2 -> -1 [] OTHER -> 0

Sin4(q) == CASE q % 4 = 1 -> 1 [] q % 4 = 3 -> -1 [] OTHER -> 0

RotX(q) == << <<1, 0, 0>>, <<0, Cos4(q), -Sin4(q)>>, <<0, Sin4(q), Cos4(q)>> >>

RotY(q) == << <<Cos4(q), 0, Sin4(q)>>, <<0, 1, 0>>, <<-Sin4(q), 0, Cos4(q)>> >>

RotZ(q) == << <<Cos4(q), -Sin4(q), 0>>, <<Sin4(q), Cos4(q), 0>>, <<0, 0, 1>> >>

\* cv2.Rodrigues on a rotation vector counted in quarter turns.  Exact when
\* at most one component is non-zero (every rotation vector of the model's
\* inputs); otherwise the product of the per-axis rotations stands in for it.
Rodrigues(r) == MatMul(RotZ(r[3]), MatMul(RotY(r[2]), RotX(r[1])))

\* tau_to_transform: R from tau[:3], T = tau[3:]
tau_to_transform(t) ==
    [R |-> Rodrigues(<<t[1], t[2], t[3]>>), T |-> <<t[4], t[5], t[6]>>]

(***************************************************************************)
(* Inputs.                                                                 *)
(***************************************************************************)
\* camera matrix cfg.K: focal length 1, principal point (2, 1)
K == << <<1, 0, 2>>, <<0, 1, 1>>, <<0, 0, 1>> >>

\* the point clouds self.pc_detector.pcs a run may be loaded with: one
\* sequence of points per frame
PcsChoices ==
    { << << <<0, 0, 1>>, <<2, 0, 1>>, <<1, 1, 2>> >>,
         << <<3, 0, 1>>, <<0, 0, -1>> >> >>,
      << << <<0, -2, 1>>, <<0, 2, 1>> >>,
         << <<-1, 0, 2>>, <<0, 0, 3>>, <<1, 3, 1>> >> >> }

\* initial extrinsics (cfg.tau_init / load_lid_cal)
TauInitChoices ==
    { <<0, 0, 0, 0, 0, 0>>,
      <<0, 0, 0, 0, 0, -3>>,
      <<0, 0, 20, 1, 0, 0>> }

\* cost_call before any cost function is called
NoCall == [op |-> "none"]

\* one picked pair: the pixel clicked in the grayscale image and the lidar
\* point clicked in the synthetic image
Match(gray, lidar) == [gray |-> gray, lidar |-> lidar]

\* a frame's pairs when the user picks the frame's first point once, at the
\* image origin
FirstPointPicked(cloud) == <<Match(<<0, 0>>, cloud[1])>>

\* an edge image whose edge pixels are column x of the img_h rows
EdgeColumn(x) == {<<x, y>> : y \in 0..(ImgH - 1)}

\* the clouds of the cost calls: one frame, and two frames
CostPcsChoices ==
    { << << <<0, 0, 1>>, <<1, 0, 2>>, <<-2, 1, 1>> >> >>,
      << << <<0, 0, 1>>, <<1, 0, 1>> >>,
         << <<-1, -1, 1>>, <<0, 0, 2>>, <<2, 0, 1>> >> >> }

\* the pairs select_correspondences may leave for one frame: none, one that
\* matches at tau = 0, and pairs 2, 5 and 7 pixels apart at tau = 0
MatchChoices ==
    { <<>>,
      <<Match(<<2, 1>>, <<0, 0, 1>>)>>,
      <<Match(<<1, 0>>, <<0, 0, 1>>), Match(<<0, 0>>, <<2, 0, 1>>)>>,
      <<Match(<<0, 0>>, <<2, 2, 1>>)>> }

\* self.correspondences for n frames: one entry per frame
CorrespondencesChoices(n) ==
    IF n = 1 THEN {<<m>> : m \in MatchChoices}
    ELSE { <<<<>>, <<>>>>,
           <<<<Match(<<2, 1>>, <<0, 0, 1>>)>>,
             <<Match(<<1, 0>>, <<0, 0, 1>>), Match(<<0, 0>>, <<2, 0, 1>>)>>>>,
           <<<<Match(<<2, 1>>, <<0, 0, 1>>)>>, <<>>>>,
           <<<<Match(<<0, 0>>, <<2, 2, 1>>)>>,
             <<Match(<<2, 1>>, <<0, 0, 1>>)>>>> }

\* pcs_edge_masks for the clouds: which points pc_detect kept as edge points
EdgeMasksChoices(clouds) ==
    IF Len(clouds) = 1
    THEN { <<<<FALSE, FALSE, FALSE>>>>, <<<<TRUE, TRUE, FALSE>>>>,
           <<<<TRUE, FALSE, TRUE>>>> }
    ELSE { <<<<FALSE, FALSE>>, <<FALSE, FALSE, FALSE>>>>,
           <<<<TRUE, TRUE>>, <<FALSE, FALSE, FALSE>>>>,
           <<<<TRUE, FALSE>>, <<TRUE, TRUE, FALSE>>>>,
           <<<<FALSE, TRUE>>, <<FALSE, FALSE, TRUE>>>> }

\* imgs_edges for n frames: every frame's image has one vertical edge
ImgsEdgesChoices(n) ==
    { [k \in 1..n |-> EdgeColumn(0)], [k \in 1..n |-> EdgeColumn(2)] }

\* the working vectors the loss functions are called with (rescaled units)
CostProposalsScaled ==
    { <<0, 0, 0, 0, 0, 0>>, <<0, 0, 0, 100, 0, 0>>, <<0, 0, 0, 0, 0, -300>> }

\* the translations loss_translation is called with
CostProposalsTrans == { <<0, 0, 0>>, <<1, 0, 0>>, <<0, 0, -3>> }

\* sigma_in and the weights alpha_mi, alpha_gmm, alpha_corr of a loss call
LossArgsChoices ==
    { [sigma_in |-> 1, mi |-> 0, gmm |-> 0, corr |-> 1],
      [sigma_in |-> 3, mi |-> 0, gmm |-> 1, corr |-> 0],
      [sigma_in |-> 3, mi |-> 1, gmm |-> 1, corr |-> 2] }

(***************************************************************************)
(* The Projector's per-point computations (project_point_cloud).           *)
(***************************************************************************)
\* np.matmul(np.hstack((R, T)), [p; 1])
CamPoint(Rm, Tv, p) == VecAdd(MatVec(Rm, p), Tv)

\* np.dot(K, cam), divided by its last row, last row deleted
Pixel(cam) ==
    LET h == MatVec(K, cam)
    IN  <<Frac(h[1], h[3]), Frac(h[2], h[3])>>

InFrontOfCameraDropped(cam) == TRUE

\* in_front_of_camera_mask
InFrontOfCamera(cam) == cam[3] > 0

\* inside_mask_x
InsideMaskX(px) == FracGeqZero(px[1]) /\ FracLeqInt(px[1], ImgW)

\* inside_mask_y
InsideMaskY(px) == FracGeqZero(px[2]) /\ FracLeqInt(px[2], ImgH)

\* the final projection mask of one point
PointMask(cam, px) ==
    (InsideMaskX(px) /\ InsideMaskY(px)) /\ InFrontOfCamera(cam)

ProjectionStartKeep(old) == old

\* "Remove previous projection": the list the loop over frames appends to
ProjectionStart(old) == <<>>

\* the three entries the loop appends for one frame's point cloud
FrameCam(Rm, Tv, pc) == [i \in 1..Len(pc) |-> CamPoint(Rm, Tv, pc[i])]

FramePix(Rm, Tv, pc) == [i \in 1..Len(pc) |-> Pixel(CamPoint(Rm, Tv, pc[i]))]

FrameMask(Rm, Tv, pc) ==
    [i \in 1..Len(pc) |->
        PointMask(CamPoint(Rm, Tv, pc[i]), Pixel(CamPoint(Rm, Tv, pc[i])))]

RECURSIVE ProjectFrames(_, _, _, _, _)
\* for pc in self.pc_detector.pcs: append the frame's camera-frame points,
\* pixels and mask to the three lists (frames k, k+1, ...)
ProjectFrames(tabs, Rm, Tv, clouds, k) ==
    IF k > Len(clouds) THEN tabs
    ELSE ProjectFrames(
             [cam  |-> Append(tabs.cam, FrameCam(Rm, Tv, clouds[k])),
              pix  |-> Append(tabs.pix, FramePix(Rm, Tv, clouds[k])),
              mask |-> Append(tabs.mask, FrameMask(Rm, Tv, clouds[k]))],
             Rm, Tv, clouds, k + 1)

\* the tables project_point_cloud leaves for extrinsics (Rm, Tv); old are the
\* tables it finds
Projection(Rm, Tv, clouds, old) ==
    ProjectFrames([cam  |-> ProjectionStart(old.cam),
                   pix  |-> ProjectionStart(old.pix),
                   mask |-> ProjectionStart(old.mask)],
                  Rm, Tv, clouds, 1)

\* np.sum(self.projection_mask[i]): the in-frustum points of one frame
NumValid(mask) == Cardinality({i \in 1..Len(mask) : mask[i]})

(***************************************************************************)
(* compute_corresp_cost.                                                   *)
(***************************************************************************)
\* np.linalg.norm(gray_pixels - lidar_pixels, axis=1, ord=1) for one pair:
\* the lidar point carried to the camera frame, projected by K, divided by
\* its depth
PixelDistance(Rm, Tv, m) ==
    LET px == Pixel(CamPoint(Rm, Tv, m.lidar))
    IN  FracAdd(FracAbs(FracAdd(FracInt(m.gray[1]), FracMul(FracInt(-1), px[1]))),
                FracAbs(FracAdd(FracInt(m.gray[2]), FracMul(FracInt(-1), px[2]))))

RECURSIVE PixelDistances(_, _, _, _)
\* pixel_distances after the loop over the frames' matches (frames k, ...)
PixelDistances(Rm, Tv, corr, k) ==
    IF k > Len(corr) THEN <<>>
    ELSE [p \in 1..Len(corr[k]) |-> PixelDistance(Rm, Tv, corr[k][p])]
         \o PixelDistances(Rm, Tv, corr, k + 1)

RhoStrict(dist) == IF dist.d # 0 /\ dist.n < 5 * dist.d THEN dist ELSE FracMul(dist, dist)

\* what one distance adds to total_dist
Rho(dist) == IF FracLeqInt(dist, 5) THEN dist ELSE FracMul(dist, dist)

\* total_dist after the loop over pixel_distances
TotalDist(dists) == FracSum([p \in 1..Len(dists) |-> Rho(dists[p])])

\* np.sqrt(img_w**2 + img_h**2)*3
DistOffset == Surd(3, FracInt(0))

\* compute_corresp_cost() with extrinsics (Rm, Tv).  np.matmul(self.R,
\* lidar_points.T) raises ValueError on a frame without pairs (its
\* lidar_points has shape (0,)); total_dist/num_corresp raises
\* ZeroDivisionError on an empty list
ComputeCorrespCost(Rm, Tv, corr) ==
    IF \E k \in 1..Len(corr) : corr[k] = <<>>
    THEN [outcome |-> "ValueError"]
    ELSE LET dists == PixelDistances(Rm, Tv, corr, 1)
             num_corresp == Len(dists)
         IN  IF num_corresp = 0
             THEN [outcome |-> "ZeroDivisionError"]
             ELSE [outcome |-> "returned",
                   value |-> SurdAdd(SurdScale(DistOffset, -1),
                                     Surd(0, FracMul(FracInt(3),
                                                     FracDivInt(TotalDist(dists),
                                                                num_corresp))))]

(***************************************************************************)
(* draw_edge_points_binary and compute_chamfer_dists.                      *)
(***************************************************************************)
\* pixel.astype(np.int) of an in-frustum pixel
IntPixel(px) == <<FracFloor(px[1]), FracFloor(px[2])>>

\* whether image[y, x] exists in an image of shape (img_h, img_w)
InImage(ip) == ip[1] \in 0..(ImgW - 1) /\ ip[2] \in 0..(ImgH - 1)

\* projected_points_valid of draw_edge_points_binary: the frame's points
\* that are in the projection mask and in the edge mask
ValidEdgePoints(tabs, edge_masks, k) ==
    {i \in 1..Len(tabs.mask[k]) : tabs.mask[k][i] /\ edge_masks[k][i]}

\* draw_edge_points_binary(frame): the pixels set in the image, or the
\* IndexError of image[y, x] = True on a pixel outside the image
DrawEdgePointsBinary(tabs, edge_masks, k) ==
    LET drawn == {IntPixel(tabs.pix[k][i]) : i \in ValidEdgePoints(tabs, edge_masks, k)}
    IN  IF \E ip \in drawn : ~InImage(ip)
        THEN [outcome |-> "IndexError"]
        ELSE [outcome |-> "returned", image |-> drawn]

\* squared distance of two pixels
SqDist(a, b) == (a[1] - b[1]) * (a[1] - b[1]) + (a[2] - b[2]) * (a[2] - b[2])

\* cv.distanceTransform(cam_edges_inv, DIST_L2, DIST_MASK_PRECISE) at pixel
\* ip: the distance to the nearest edge pixel.  The root is exact on the
\* model's images, whose edges are whole columns
CamDistMap(edges, ip) ==
    LET sq == CHOOSE m \in {SqDist(e, ip) : e \in edges} :
                  \A e \in edges : m <= SqDist(e, ip)
    IN  CHOOSE r \in 0..sq : r * r = sq

RECURSIVE SumOver(_, _, _)
\* the sum of CamDistMap over a set of pixels
SumOver(edges, pixels, acc) ==
    IF pixels = {} THEN acc
    ELSE LET ip == CHOOSE q \in pixels : TRUE
         IN  SumOver(edges, pixels \ {ip}, acc + CamDistMap(edges, ip))

RECURSIVE ChamferFrames(_, _, _, _, _, _)
\* the loop over frames of compute_chamfer_dists, from frame k with the
\* totals so far; total_dist/total_edge_pts divides numpy scalars, 0/0 = nan
ChamferFrames(tabs, edge_masks, edges, k, total_dist, total_edge_pts) ==
    IF k > Len(tabs.mask)
    THEN [outcome |-> "returned",
          value |-> FracDivInt(FracInt(total_dist), total_edge_pts)]
    ELSE LET lid_edges == DrawEdgePointsBinary(tabs, edge_masks, k)
         IN  IF lid_edges.outcome # "returned" THEN lid_edges
             ELSE ChamferFrames(tabs, edge_masks, edges, k + 1,
                                total_dist + SumOver(edges[k], lid_edges.image, 0),
                                total_edge_pts + Cardinality(lid_edges.image))

\* compute_chamfer_dists()
ComputeChamferDists(tabs, edge_masks, edges) ==
    ChamferFrames(tabs, edge_masks, edges, 1, 0, 0)

(***************************************************************************)
(* compute_mi_cost.  The kernel density estimates and the entropies are    *)
(* library code; the value of the estimate is kept as a term over the      *)
(* pixels sampled.                                                         *)
(***************************************************************************)
\* the pixels grayscale_img is sampled at: the in-frustum points, in order
ValidPixels(tabs, k) ==
    LET idx == {i \in 1..Len(tabs.mask[k]) : tabs.mask[k][i]}
    IN  {IntPixel(tabs.pix[k][i]) : i \in idx}

\* compute_mi_cost(frame) on the tables its own project_point_cloud() left:
\* IndexError when a sampled pixel is outside the image, the estimate when
\* there is at least one in-frustum point, else 0
ComputeMiCost(tabs, k) ==
    IF \E ip \in ValidPixels(tabs, k) : ~InImage(ip)
    THEN [outcome |-> "IndexError"]
    ELSE IF NumValid(tabs.mask[k]) > 0
    THEN [outcome |-> "returned", kind |-> "estimate",
          samples |-> NumValid(tabs.mask[k])]
    ELSE [outcome |-> "returned", kind |-> "zero", samples |-> 0]

(***************************************************************************)
(* compute_conv_cost.                                                      *)
(***************************************************************************)
\* int(sigma) for sigma = sigma_in / np.linalg.norm(cam, 2): the largest s
\* with s * norm <= sigma_in
IntSigma(sigma_in, cam) ==
    CHOOSE s \in 0..sigma_in :
        /\ s * s * Dot(cam, cam) <= sigma_in * sigma_in
        /\ (s + 1) * (s + 1) * Dot(cam, cam) > sigma_in * sigma_in

\* the pixels of edge_scores_patch: the window of 3 * int(sigma) pixels
\* around mu, clipped to the image (get_boundry)
Patch(mu, int_sigma) ==
    {ip \in (0..(ImgW - 1)) \X (0..(ImgH - 1)) :
        /\ Abs(ip[1] - mu[1]) <= 3 * int_sigma
        /\ Abs(ip[2] - mu[2]) <= 3 * int_sigma}

\* num_nonzeros != 0: the patch holds an image-edge pixel (img_edge_scores
\* is non-zero exactly on the edge pixels)
PatchHasEdges(edges, mu, int_sigma) == Patch(mu, int_sigma) \cap edges # {}

\* pcs_edge_idxs[frame]: the indices of the frame's edge points, ascending
EdgeIdxs(edge_masks, k) == {i \in 1..Len(edge_masks[k]) : edge_masks[k][i]}

\* cost_map[mu_y, mu_x] = ... : the entry at mu now holds the contribution
\* of point idx
CostMapSet(cost_map, mu, idx) ==
    [ip \in DOMAIN cost_map \cup {mu} |->
        IF ip = mu THEN {idx} ELSE cost_map[ip]]

RECURSIVE ConvPoints(_, _, _, _, _, _, _)
\* the loop over the frame's edge points from index idx on.  cost_map maps
\* the pixels written so far to the points whose contributions the entry
\* holds; the returned cost is minus the sum of the entries
ConvPoints(tabs, edge_masks, edges, sigma_in, k, idx, cost_map) ==
    IF idx > Len(edge_masks[k])
    THEN [outcome |-> "returned",
          counted |-> UNION {cost_map[ip] : ip \in DOMAIN cost_map}]
    ELSE IF ~(idx \in EdgeIdxs(edge_masks, k)) \/ ~tabs.mask[k][idx]
    THEN ConvPoints(tabs, edge_masks, edges, sigma_in, k, idx + 1, cost_map)
    ELSE LET mu == IntPixel(tabs.pix[k][idx])
             int_sigma == IntSigma(sigma_in, tabs.cam[k][idx])
         IN  IF ~PatchHasEdges(edges[k], mu, int_sigma)
             THEN ConvPoints(tabs, edge_masks, edges, sigma_in, k, idx + 1, cost_map)
             ELSE IF ~InImage(mu)
             THEN [outcome |-> "IndexError"]
             ELSE ConvPoints(tabs, edge_masks, edges, sigma_in, k, idx + 1,
                             CostMapSet(cost_map, mu, idx))

\* compute_conv_cost(sigma_in, frame)
ComputeConvCost(tabs, edge_masks, edges, sigma_in, k) ==
    ConvPoints(tabs, edge_masks, edges, sigma_in, k, 1, <<>>)

\* the edge points of the frame that contribute: in frustum, with an image
\* edge pixel in their window
ContributingPoints(tabs, edge_masks, edges, sigma_in, k) ==
    {i \in EdgeIdxs(edge_masks, k) :
        /\ tabs.mask[k][i]
        /\ PatchHasEdges(edges[k], IntPixel(tabs.pix[k][i]),
                         IntSigma(sigma_in, tabs.cam[k][i]))}

(***************************************************************************)
(* The cost components of loss_scaled and loss_translation.                *)
(***************************************************************************)
\* np.zeros((4, 1)): the mi and gmm components as the lists of the terms
\* added to them, the corr and chamfer components as numbers
ZeroComponents ==
    [outcome |-> "returned", mi |-> <<>>, gmm |-> <<>>,
     corr |-> Surd(0, FracInt(0)), chamfer |-> FracInt(0)]

\* a cost function that is not called
NotCalled == [outcome |-> "returned", kind |-> "not called"]

\* the first exception of the calls of one pass of the loop, if any
FirstRaised(calls) ==
    LET raised == {j \in 1..Len(calls) : calls[j].outcome # "returned"}
    IN  IF raised = {} THEN "returned"
        ELSE calls[CHOOSE j \in raised : \A i \in raised : j <= i].outcome

RECURSIVE LossFrames(_, _, _, _, _, _)
\* for frame_idx in range(calibrator.num_frames), from frame k with the
\* components comp.  cal holds the calibrator's tables, extrinsics,
\* correspondences and edges.  guarded is loss_scaled, which tests each
\* weight before the call and adds the chamfer distance; loss_translation
\* calls the three cost functions whatever the weights
LossFrames(cal, sigma_in, alphas, guarded, k, comp) ==
    IF k > Len(cal.tabs.mask) THEN comp
    ELSE LET mi == IF guarded /\ alphas.mi = 0 THEN NotCalled
                   ELSE ComputeMiCost(cal.tabs, k)
             gmm == IF guarded /\ alphas.gmm = 0 THEN NotCalled
                    ELSE ComputeConvCost(cal.tabs, cal.edge_masks, cal.edges,
                                         sigma_in, k)
             corr == IF guarded /\ alphas.corr = 0 THEN NotCalled
                     ELSE ComputeCorrespCost(cal.R, cal.T, cal.corr)
             chamfer == IF guarded
                        THEN ComputeChamferDists(cal.tabs, cal.edge_masks, cal.edges)
                        ELSE NotCalled
             raised == FirstRaised(<<mi, gmm, corr, chamfer>>)
         IN  IF raised # "returned" THEN [outcome |-> raised]
             ELSE LossFrames(cal, sigma_in, alphas, guarded, k + 1,
                    [outcome |-> "returned",
                     mi |-> IF alphas.mi = 0 THEN comp.mi
                            ELSE Append(comp.mi, [frame |-> k, kind |-> mi.kind,
                                                  samples |-> mi.samples]),
                     gmm |-> IF alphas.gmm = 0 THEN comp.gmm
                             ELSE Append(comp.gmm, [frame |-> k,
                                                    counted |-> gmm.counted]),
                     corr |-> IF corr = NotCalled THEN comp.corr
                              ELSE SurdAdd(comp.corr,
                                           SurdScale(corr.value, alphas.corr)),
                     chamfer |-> IF guarded
                                 THEN FracAdd(comp.chamfer, chamfer.value)
                                 ELSE comp.chamfer])

\* cost_components of one loss evaluation
LossComponents(cal, sigma_in, alphas, guarded) ==
    LossFrames(cal, sigma_in, alphas, guarded, 1, ZeroComponents)

\* sum(cost_components) when the mi and gmm components are zero
TotalCost(comp) == SurdAdd(comp.corr, Surd(0, comp.chamfer))

(***************************************************************************)
(* detect_pc_edges: the combined score and the threshold.                  *)
(***************************************************************************)
\* q > w on floats, nan comparing False (w finite)
FracGt(q, w) == IF q.d = 0 THEN q.n = 1 ELSE q.n * w.d > w.n * q.d

\* np.max of a non-empty sequence of integers
MaxOf(xs) == CHOOSE m \in {xs[i] : i \in 1..Len(xs)} : \A i \in 1..Len(xs) : xs[i] <= m

\* pc_edge_scores = 0.5 * (center_scores/max_center_score +
\*                         planar_scores/max_planar_score)
CombinedScores(center_scores, planar_scores) ==
    [i \in 1..Len(center_scores) |->
        FracMul(Frac(1, 2),
                FracAdd(Frac(center_scores[i], MaxOf(center_scores)),
                        Frac(planar_scores[i], MaxOf(planar_scores))))]

RECURSIVE Filtered(_, _)
\* xs[filter]: the entries of xs where filter holds, in order
Filtered(xs, filter) ==
    IF xs = <<>> THEN <<>>
    ELSE LET n == Len(xs)
             front == Filtered(SubSeq(xs, 1, n - 1), SubSeq(filter, 1, n - 1))
         IN  IF filter[n] THEN Append(front, xs[n]) ELSE front

\* filter = pc_edge_scores > thr
ScoreFilter(pc_edge_scores, thr) ==
    [i \in 1..Len(pc_edge_scores) |-> FracGt(pc_edge_scores[i], thr)]

\* detect_pc_edges from the scores on: the points kept (by index), their
\* scores, and np.max of the kept scores, which raises ValueError when no
\* score is kept
DetectPcEdges(center_scores, planar_scores, thr) ==
    LET pc_edge_scores == CombinedScores(center_scores, planar_scores)
        filter == ScoreFilter(pc_edge_scores, thr)
        kept == Filtered(pc_edge_scores, filter)
    IN  IF kept = <<>>
        THEN [outcome |-> "ValueError"]
        ELSE [outcome |-> "returned",
              pc_edge_points |-> Filtered([i \in 1..Len(filter) |-> i], filter),
              pc_edge_scores |-> kept]

\* the centre and planarity scores of a three-point cloud, and thresholds
ScoreChoices == { <<2, 1, 0>>, <<0, 1, 2>> }

ThrChoices == { Frac(1, 2), Frac(1, 1) }

(***************************************************************************)
(* The optimizer's working vector.                                         *)
(***************************************************************************)
\* self.tau_ord_mags = 10 ** [1, 1, 1, -2, -2, -2], each as <<numerator,
\* denominator>>
tau_ord_mags ==
    [i \in 1..6 |-> IF i <= 3 THEN <<10, 1>> ELSE <<1, 100>>]

\* np.divide(tau, self.tau_ord_mags); exact on the model's taus, whose
\* rotation components are multiples of 10
Divide(t, mags) ==
    [i \in 1..6 |-> (t[i] * mags[i][2]) \div mags[i][1]]

\* np.multiply(x, tau_scales); exact on the model's working vectors, whose
\* translation components are multiples of 100
Multiply(x, mags) ==
    [i \in 1..6 |-> (x[i] * mags[i][1]) \div mags[i][2]]

\* loss_scaled: the tau left in calibrator.tau for a proposed x
LossScaledTau(x, tau_scales) ==
    IF tau_scales # <<>> THEN Multiply(x, tau_scales) ELSE x

\* loss_translation: tau_new[3:] = trans, written into the array tau_new
LossTranslationTau(t, trans) ==
    <<t[1], t[2], t[3], trans[1], trans[2], trans[3]>>

\* per-axis steps of the initial simplex, in the working vector's units
SimplexDeltas == <<2, 2, 2, 100, 100, 100>>

\* get_mixed_delta_simplex(tau, simplex_deltas, scales): the vertex at the
\* rescaled tau and one vertex per axis, stepped by that axis' delta
MixedDeltaSimplex(t, deltas, scales) ==
    LET x0 == Divide(t, scales)
    IN  <<x0>> \o [j \in 1..6 |->
                      [i \in 1..6 |-> IF i = j THEN x0[i] + deltas[i] ELSE x0[i]]]

\* get_initial_simplex(tau[3:], delta): the vertex at the translation and
\* one vertex per translation axis
InitialSimplex(trans, delta) ==
    <<trans>> \o [j \in 1..3 |->
                     [i \in 1..3 |-> IF i = j THEN trans[i] + delta ELSE trans[i]]]

\* perturb_tau(tau, rot_noise, trans_noise): tau plus a noise vector drawn
\* within the two magnitudes
Perturb(t, noise) == VecAdd(t, noise)

\* the noise vectors perturb_tau may draw
NoiseChoices ==
    { <<0, 0, 0, 0, 0, 0>>, <<0, 0, 0, 0, 0, 1>>, <<0, 0, 20, 1, 0, 0>> }

\* working vectors Nelder-Mead may propose after the initial simplex
\* (ls_optimize, rescaled units)
ProposalsScaled ==
    { <<0, 0, 0, 0, 0, 0>>, <<1, 0, 0, 0, 0, 0>>,
      <<0, 0, 0, 0, 0, -300>>, <<0, 0, 2, 100, 0, 0>> }

\* translations Nelder-Mead may propose (ls_optimize_translation)
ProposalsTrans == { <<0, 0, 0>>, <<1, 0, 0>>, <<0, 0, -3>> }

(***************************************************************************)
(* numpy arrays as heap objects.                                           *)
(***************************************************************************)
Refs == 1..3

\* no array: an attribute not yet set, or an unused heap cell
None == <<>>

\* a cell no live reference names
Fresh(live) == CHOOSE r \in Refs : r \notin live /\ \A q \in Refs : q < r => q \in live

\* the heap with every cell outside live dropped
Collect(h, live) == [r \in Refs |-> IF r \in live THEN h[r] ELSE None]

(***************************************************************************)
(* State.                                                                  *)
(***************************************************************************)
VARIABLES
    pcs,               \* self.pc_detector.pcs: the frames' point clouds
    heap,              \* the contents of the tau arrays
    tau,               \* self.tau: a reference into heap
    tau_preoptimize,   \* self.tau_preoptimize: a reference, 0 before it is set
    R,                 \* self.R
    T,                 \* self.T
    points_cam_frame,  \* self.points_cam_frame
    projected_points,  \* self.projected_points
    projection_mask,   \* self.projection_mask
    numpoints_preopt,  \* self.numpoints_preopt
    initial_simplex,   \* opt_options['initial_simplex'] of the optimize call
    alpha_mi,          \* the optimize call's alpha_mi is non-zero
    call,              \* the optimize method entered last
    pc,                \* where it is: "idle", "minimize", "except"
    nm_next,           \* Nelder-Mead: next vertex of the simplex to evaluate
    nm_iters,          \* Nelder-Mead: iterations done after the simplex
    nm_best,           \* Nelder-Mead: the best vertex so far
    last_op,           \* history: the operation that ran last
    proposal,          \* the vector minimize handed to the last loss evaluation
    tau_entry,         \* history: tau's value when the optimize call was entered
    restart_tau,       \* history: the tau the last restart perturbed to
    num_calls,         \* history: optimize calls entered
    num_restarts,      \* history: restarts of the current optimize call
    correspondences,   \* self.correspondences: per frame, the picked pairs
    pcs_edge_masks,    \* self.pc_detector.pcs_edge_masks: per frame, per point
    imgs_edges,        \* self.img_detector.imgs_edges: per frame, edge pixels
    cost_call,         \* the last call of a cost or detection function and
                       \* what it gave
    frame_idx,         \* select_correspondences: the frame being picked
    points_selected,   \* select_correspondences: confirmations so far
    curr_img_name,     \* select_correspondences: the image shown
    refPt,             \* select_correspondences: the pixel clicked last
    refPt_3D,          \* select_correspondences: the lidar point clicked last
    gray_pixels,       \* select_correspondences: the frame's confirmed pixels
    lidar_pixels,      \* select_correspondences: the frame's lidar pixels
    lidar_points,      \* select_correspondences: the frame's lidar points
    picked,            \* history: the (gray_pixels, lidar_points) appended
    confirmations      \* history: the images confirmed in the frame, in order

tables == <<points_cam_frame, projected_points, projection_mask>>

nm == <<nm_next, nm_iters, nm_best>>

vars == <<pcs, heap, tau, tau_preoptimize, R, T, points_cam_frame,
          projected_points, projection_mask, numpoints_preopt, initial_simplex,
          alpha_mi, call, pc, nm_next, nm_iters, nm_best, last_op, proposal,
          tau_entry, restart_tau, num_calls, num_restarts, correspondences,
          pcs_edge_masks, imgs_edges, cost_call, frame_idx, points_selected,
          curr_img_name, refPt, refPt_3D, gray_pixels, lidar_pixels,
          lidar_points, picked, confirmations>>

\* what the detectors and the picker hold, and the records of the cost calls
costvars ==
    <<correspondences, pcs_edge_masks, imgs_edges, cost_call, frame_idx,
      points_selected, curr_img_name, refPt, refPt_3D, gray_pixels,
      lidar_pixels, lidar_points, picked, confirmations>>

\* the locals of select_correspondences and its history
picker ==
    <<frame_idx, points_selected, curr_img_name, refPt, refPt_3D, gray_pixels,
      lidar_pixels, lidar_points, picked, confirmations>>

\* select_correspondences has returned: its locals are gone
PickerReturned ==
    /\ frame_idx = Len(pcs) + 1
    /\ points_selected = 0
    /\ curr_img_name = "gray"
    /\ refPt = None
    /\ refPt_3D = None
    /\ gray_pixels = None
    /\ lidar_pixels = None
    /\ lidar_points = None
    /\ picked = None
    /\ confirmations = None

\* the three derived tables as one record
Tables ==
    [cam |-> points_cam_frame, pix |-> projected_points, mask |-> projection_mask]

\* self.num_frames
num_frames == Len(pcs)

ProjectorRunFromCam(t, clouds, old) ==
    LET rt == tau_to_transform(t)
    IN  [R |-> rt.R, T |-> rt.T,
         tabs |-> Projection(rt.R, rt.T,
                             IF old.cam = <<>> THEN clouds ELSE old.cam, old)]

\* project_point_cloud for tau value t: the R, T and tables it leaves
ProjectorRun(t, clouds, old) ==
    LET rt == tau_to_transform(t)
    IN  [R |-> rt.R, T |-> rt.T, tabs |-> Projection(rt.R, rt.T, clouds, old)]

\* the state after __init__: tau from the configuration, project_point_cloud
\* run once
Init ==
    /\ pcs \in PcsChoices
    /\ \E t \in TauInitChoices :
          /\ heap = [r \in Refs |-> IF r = 1 THEN t ELSE None]
          /\ LET run == ProjectorRun(t, pcs, [cam |-> <<>>, pix |-> <<>>, mask |-> <<>>])
             IN  /\ R = run.R
                 /\ T = run.T
                 /\ points_cam_frame = run.tabs.cam
                 /\ projected_points = run.tabs.pix
                 /\ projection_mask = run.tabs.mask
    /\ tau = 1
    /\ tau_preoptimize = 0
    /\ numpoints_preopt = <<>>
    /\ initial_simplex = <<>>
    /\ alpha_mi = FALSE
    /\ call = "none"
    /\ pc = "idle"
    /\ nm_next = 1
    /\ nm_iters = 0
    /\ nm_best = None
    /\ last_op = "init"
    /\ proposal = None
    /\ tau_entry = None
    /\ restart_tau = None
    /\ num_calls = 0
    /\ num_restarts = 0
    /\ correspondences = [k \in 1..Len(pcs) |-> FirstPointPicked(pcs[k])]
    /\ pcs_edge_masks = [k \in 1..Len(pcs) |-> [i \in 1..Len(pcs[k]) |-> FALSE]]
    /\ imgs_edges = [k \in 1..Len(pcs) |-> EdgeColumn(0)]
    /\ cost_call = NoCall
    /\ PickerReturned

\* the assignments of a Projector run to self.R, self.T and the tables
SetProjection(run) ==
    /\ R' = run.R
    /\ T' = run.T
    /\ points_cam_frame' = run.tabs.cam
    /\ projected_points' = run.tabs.pix
    /\ projection_mask' = run.tabs.mask

\* project_point_cloud(), called on the calibrator between optimize calls
ProjectPointCloud ==
    /\ pc = "idle"
    /\ SetProjection(ProjectorRun(heap[tau], pcs, Tables))
    /\ last_op' = IF last_op \in {"project", "project_again"}
                  THEN "project_again" ELSE "project"
    /\ UNCHANGED costvars
    /\ UNCHANGED <<pcs, heap, tau, tau_preoptimize, numpoints_preopt,
                   initial_simplex, alpha_mi, call, pc, nm, proposal, tau_entry,
                   restart_tau, num_calls, num_restarts>>

(***************************************************************************)
(* Nelder-Mead (scipy.optimize.minimize) as the optimize calls use it: it  *)
(* evaluates the loss at the vertices of options['initial_simplex'] in     *)
(* order (the simplex, when given, takes the place of x0), then at up to   *)
(* maxiter further proposals, and returns the best vertex it evaluated.    *)
(* Loss values are not modelled: any evaluated vertex may be the best.     *)
(***************************************************************************)
\* the vectors the next loss evaluation may be given
NelderMeadProposals(further) ==
    IF nm_next <= Len(initial_simplex) THEN {initial_simplex[nm_next]}
    ELSE IF nm_iters < MaxIter THEN further
    ELSE {}

\* minimize's bookkeeping after evaluating the loss at x
NelderMeadEvaluated(x) ==
    /\ nm_next' = IF nm_next <= Len(initial_simplex) THEN nm_next + 1 ELSE nm_next
    /\ nm_iters' = IF nm_next <= Len(initial_simplex) THEN nm_iters ELSE nm_iters + 1
    /\ nm_best' \in {x} \cup (IF nm_best = None THEN {} ELSE {nm_best})

\* minimize may return: the whole simplex has been evaluated
NelderMeadDone == nm_next > Len(initial_simplex) /\ nm_best # None

\* a new minimize call
NelderMeadStart ==
    /\ nm_next' = 1
    /\ nm_iters' = 0
    /\ nm_best' = None

(***************************************************************************)
(* The degeneracy floor of the design (spec 4.2): a frame with fewer than  *)
(* 10% of its points in the frustum.  The floor on the total (10,000       *)
(* points) is far above the clouds of the model and is left out.           *)
(***************************************************************************)
Degenerate(mask) ==
    \E k \in 1..Len(mask) : 10 * NumValid(mask[k]) < Len(mask[k])

(***************************************************************************)
(* The loss functions.  strict tells whether the Projector raises          *)
(* BadProjection on a degenerate projection, as the design prescribes; the *)
(* source's project_point_cloud has no raise, which is strict = FALSE.     *)
(***************************************************************************)
LossProjectSkipped(t, ext, clouds, old) == [R |-> ext.R, T |-> ext.T, tabs |-> old]

\* calibrator.project_point_cloud() in loss_scaled and loss_translation; ext
\* is what update_extrinsics left in R and T
LossProject(t, ext, clouds, old) == ProjectorRun(t, clouds, old)

RECURSIVE MiProjectorRuns(_, _, _, _)
\* compute_mi_cost(frame_idx) calls project_point_cloud() again, once per
\* frame
MiProjectorRuns(n, t, clouds, run) ==
    IF n = 0 THEN run
    ELSE MiProjectorRuns(n - 1, t, clouds, ProjectorRun(t, clouds, run.tabs))

\* a loss evaluation at proposal x, on tau value t, after update_extrinsics
\* left ext: the Projector, then the cost terms of every frame
LossEvaluation(x, t, ext, mi, strict) ==
    LET run == LossProject(t, ext, pcs, Tables)
    IN  IF strict /\ Degenerate(run.tabs.mask)
        THEN /\ SetProjection(run)
             /\ pc' = "except"
             /\ last_op' = "raised"
             /\ UNCHANGED nm
        ELSE /\ SetProjection(IF mi THEN MiProjectorRuns(num_frames, t, pcs, run)
                              ELSE run)
             /\ pc' = pc
             /\ last_op' = "loss"
             /\ NelderMeadEvaluated(x)

\* loss_scaled(tau, calibrator, ..., tau_scales = self.tau_ord_mags, False)
LossScaled(strict) ==
    /\ pc = "minimize"
    /\ call = "ls_optimize"
    /\ \E x \in NelderMeadProposals(ProposalsScaled) :
          LET t == LossScaledTau(x, tau_ord_mags)
          IN  /\ tau' = Fresh({tau_preoptimize})
              /\ heap' = Collect([heap EXCEPT ![tau'] = t], {tau', tau_preoptimize})
              /\ LossEvaluation(x, t, tau_to_transform(x), alpha_mi, strict)
              /\ proposal' = x
    /\ UNCHANGED costvars
    /\ UNCHANGED <<pcs, tau_preoptimize, numpoints_preopt, initial_simplex,
                   alpha_mi, call, tau_entry, restart_tau, num_calls,
                   num_restarts>>

\* loss_translation(trans, calibrator, ..., False)
LossTranslation(strict) ==
    /\ pc = "minimize"
    /\ call = "ls_optimize_translation"
    /\ \E x \in NelderMeadProposals(ProposalsTrans) :
          LET t == LossTranslationTau(heap[tau], x)
          IN  /\ heap' = [heap EXCEPT ![tau] = t]
              /\ LossEvaluation(x, t, tau_to_transform(t), TRUE, strict)
              /\ proposal' = x
    /\ UNCHANGED costvars
    /\ UNCHANGED <<pcs, tau, tau_preoptimize, numpoints_preopt, initial_simplex,
                   alpha_mi, call, tau_entry, restart_tau, num_calls,
                   num_restarts>>

(***************************************************************************)
(* ls_optimize.                                                            *)
(***************************************************************************)
\* an optimize call returns: its locals (opt_options, minimize's state, the
\* arguments) are gone
ReturnToCaller ==
    /\ initial_simplex' = <<>>
    /\ alpha_mi' = FALSE
    /\ NelderMeadStart
    /\ proposal' = None
    /\ call' = call
    /\ pc' = "idle"
    /\ last_op' = "return"

\* ls_optimize up to its first minimize call: the optimization config, then
\* the first pass of the while loop's try block
LsOptimizeEnter ==
    /\ pc = "idle"
    /\ num_calls < MaxCalls
    /\ alpha_mi' \in BOOLEAN
    /\ numpoints_preopt' = [i \in 1..Len(projection_mask) |-> NumValid(projection_mask[i])]
    /\ initial_simplex' = MixedDeltaSimplex(heap[tau], SimplexDeltas, tau_ord_mags)
    /\ tau_preoptimize' = tau
    /\ tau' = Fresh({tau})
    /\ heap' = Collect([heap EXCEPT ![tau'] = Divide(heap[tau], tau_ord_mags)],
                       {tau, tau'})
    /\ NelderMeadStart
    /\ call' = "ls_optimize"
    /\ pc' = "minimize"
    /\ last_op' = "enter"
    /\ tau_entry' = heap[tau]
    /\ restart_tau' = None
    /\ num_calls' = num_calls + 1
    /\ num_restarts' = 0
    /\ UNCHANGED costvars
    /\ UNCHANGED <<pcs, R, T, tables, proposal>>

\* minimize returns: optim_successful = True; self.tau = opt_results.x *
\* self.tau_ord_mags; return
LsOptimizeReturn ==
    /\ pc = "minimize"
    /\ call = "ls_optimize"
    /\ NelderMeadDone
    /\ tau' = Fresh({tau_preoptimize})
    /\ heap' = Collect([heap EXCEPT ![tau'] = Multiply(nm_best, tau_ord_mags)],
                       {tau', tau_preoptimize})
    /\ ReturnToCaller
    /\ UNCHANGED costvars
    /\ UNCHANGED <<pcs, tau_preoptimize, R, T, tables, numpoints_preopt,
                   tau_entry, restart_tau, num_calls, num_restarts>>

\* except BadProjection: self.tau = perturb_tau(self.tau_preoptimize, 0.005,
\* 0.5), then the while loop's next pass up to its minimize call, with the
\* opt_options built before the loop
LsOptimizeExcept ==
    /\ pc = "except"
    /\ call = "ls_optimize"
    /\ num_restarts < MaxRestarts
    /\ \E noise \in NoiseChoices :
          LET p == Perturb(heap[tau_preoptimize], noise)
          IN  /\ tau' = Fresh({tau_preoptimize})
              /\ heap' = Collect([heap EXCEPT ![tau'] = Divide(p, tau_ord_mags)],
                                 {tau', tau_preoptimize})
              /\ restart_tau' = p
    /\ NelderMeadStart
    /\ pc' = "minimize"
    /\ last_op' = "restart"
    /\ num_restarts' = num_restarts + 1
    /\ UNCHANGED costvars
    /\ UNCHANGED <<pcs, tau_preoptimize, R, T, tables, numpoints_preopt,
                   initial_simplex, alpha_mi, call, proposal, tau_entry,
                   num_calls>>

(***************************************************************************)
(* ls_optimize_translation.                                                *)
(***************************************************************************)
\* ls_optimize_translation up to its first minimize call
LsOptimizeTranslationEnter ==
    /\ pc = "idle"
    /\ num_calls < MaxCalls
    /\ alpha_mi' = TRUE
    /\ initial_simplex' =
          InitialSimplex(<<heap[tau][4], heap[tau][5], heap[tau][6]>>, 1)
    /\ tau_preoptimize' = tau
    /\ heap' = Collect(heap, {tau})
    /\ NelderMeadStart
    /\ call' = "ls_optimize_translation"
    /\ pc' = "minimize"
    /\ last_op' = "enter"
    /\ tau_entry' = heap[tau]
    /\ restart_tau' = None
    /\ num_calls' = num_calls + 1
    /\ num_restarts' = 0
    /\ UNCHANGED costvars
    /\ UNCHANGED <<pcs, tau, R, T, tables, numpoints_preopt, proposal>>

\* minimize returns: optim_successful = True; self.tau[3:] = opt_results.x;
\* return
LsOptimizeTranslationReturn ==
    /\ pc = "minimize"
    /\ call = "ls_optimize_translation"
    /\ NelderMeadDone
    /\ heap' = [heap EXCEPT ![tau] = LossTranslationTau(heap[tau], nm_best)]
    /\ ReturnToCaller
    /\ UNCHANGED costvars
    /\ UNCHANGED <<pcs, tau, tau_preoptimize, R, T, tables, numpoints_preopt,
                   tau_entry, restart_tau, num_calls, num_restarts>>

\* except BadProjection: self.tau = perturb_tau(self.tau_preoptimize, 0.005,
\* 0.5), then the while loop's next pass up to its minimize call
LsOptimizeTranslationExcept ==
    /\ pc = "except"
    /\ call = "ls_optimize_translation"
    /\ num_restarts < MaxRestarts
    /\ \E noise \in NoiseChoices :
          LET p == Perturb(heap[tau_preoptimize], noise)
          IN  /\ tau' = Fresh({tau_preoptimize})
              /\ heap' = Collect([heap EXCEPT ![tau'] = p], {tau', tau_preoptimize})
              /\ restart_tau' = p
    /\ NelderMeadStart
    /\ pc' = "minimize"
    /\ last_op' = "restart"
    /\ num_restarts' = num_restarts + 1
    /\ UNCHANGED costvars
    /\ UNCHANGED <<pcs, tau_preoptimize, R, T, tables, numpoints_preopt,
                   initial_simplex, alpha_mi, call, proposal, tau_entry,
                   num_calls>>

(***************************************************************************)
(* Specifications.                                                         *)
(***************************************************************************)
\* the source: no BadProjection is ever raised, so the except blocks never
\* run
Next ==
    \/ ProjectPointCloud
    \/ LsOptimizeEnter
    \/ LossScaled(FALSE)
    \/ LsOptimizeReturn
    \/ LsOptimizeTranslationEnter
    \/ LossTranslation(FALSE)
    \/ LsOptimizeTranslationReturn

Spec == Init /\ [][Next]_vars

\* the source with a Projector that raises BadProjection on a degenerate
\* projection as the design prescribes: the runs in which the except blocks
\* of ls_optimize and ls_optimize_translation execute
NextRaising ==
    \/ ProjectPointCloud
    \/ LsOptimizeEnter
    \/ LossScaled(TRUE)
    \/ LsOptimizeReturn
    \/ LsOptimizeExcept
    \/ LsOptimizeTranslationEnter
    \/ LossTranslation(TRUE)
    \/ LsOptimizeTranslationReturn
    \/ LsOptimizeTranslationExcept

SpecRaising == Init /\ [][NextRaising]_vars

(***************************************************************************)
(* The cost functions, called on a constructed calibrator.                 *)
(***************************************************************************)
\* the calibrator as the cost functions read it, with the Projector run
\* run in R, T and the tables
Calibrator(run) ==
    [tabs |-> run.tabs, R |-> run.R, T |-> run.T, corr |-> correspondences,
     edge_masks |-> pcs_edge_masks, edges |-> imgs_edges]

\* the calibrator of the current state
Self == Calibrator([R |-> R, T |-> T, tabs |-> Tables])

\* sigma_in of the calls of compute_conv_cost
SigmaChoices == {1, 3}

\* the state after __init__ with tau_init = 0: the clouds and images loaded,
\* the Projector run once, the pairs picked, the edges detected
InitCost ==
    /\ pcs \in CostPcsChoices
    /\ heap = [r \in Refs |-> IF r = 1 THEN <<0, 0, 0, 0, 0, 0>> ELSE None]
    /\ LET run == ProjectorRun(<<0, 0, 0, 0, 0, 0>>, pcs,
                               [cam |-> <<>>, pix |-> <<>>, mask |-> <<>>])
       IN  /\ R = run.R
           /\ T = run.T
           /\ points_cam_frame = run.tabs.cam
           /\ projected_points = run.tabs.pix
           /\ projection_mask = run.tabs.mask
    /\ tau = 1
    /\ tau_preoptimize = 0
    /\ numpoints_preopt = <<>>
    /\ initial_simplex = <<>>
    /\ alpha_mi = FALSE
    /\ call = "none"
    /\ pc = "idle"
    /\ nm_next = 1
    /\ nm_iters = 0
    /\ nm_best = None
    /\ last_op = "init"
    /\ proposal = None
    /\ tau_entry = None
    /\ restart_tau = None
    /\ num_calls = 0
    /\ num_restarts = 0
    /\ correspondences \in CorrespondencesChoices(Len(pcs))
    /\ pcs_edge_masks \in EdgeMasksChoices(pcs)
    /\ imgs_edges \in ImgsEdgesChoices(Len(pcs))
    /\ cost_call = NoCall
    /\ PickerReturned

\* what the cost calls leave alone: the optimizer's state and the inputs
CostFrame ==
    UNCHANGED <<pcs, tau_preoptimize, numpoints_preopt, initial_simplex,
                alpha_mi, call, pc, nm, last_op, proposal, tau_entry,
                restart_tau, num_calls, num_restarts, correspondences,
                pcs_edge_masks, imgs_edges, picker>>

\* loss_scaled(x, calibrator, sigma_in, alpha_mi, alpha_gmm, alpha_corr,
\* cost_history, calibrator.tau_ord_mags, True)
CallLossScaled ==
    /\ \E x \in CostProposalsScaled, alphas \in LossArgsChoices :
          LET t == LossScaledTau(x, tau_ord_mags)
              run == LossProject(t, tau_to_transform(x), pcs, Tables)
          IN  /\ tau' = Fresh({tau_preoptimize})
              /\ heap' = Collect([heap EXCEPT ![tau'] = t], {tau', tau_preoptimize})
              /\ SetProjection(run)
              /\ cost_call' = [op |-> "loss_scaled", alphas |-> alphas,
                               result |-> LossComponents(Calibrator(run),
                                                         alphas.sigma_in,
                                                         alphas, TRUE)]
    /\ CostFrame

\* loss_translation(trans, calibrator, sigma_in, alpha_mi, alpha_gmm,
\* alpha_corr, cost_history, True)
CallLossTranslation ==
    /\ \E x \in CostProposalsTrans, alphas \in LossArgsChoices :
          LET t == LossTranslationTau(heap[tau], x)
              run == LossProject(t, tau_to_transform(t), pcs, Tables)
          IN  /\ heap' = [heap EXCEPT ![tau] = t]
              /\ SetProjection(run)
              /\ cost_call' = [op |-> "loss_translation", alphas |-> alphas,
                               result |-> LossComponents(Calibrator(run),
                                                         alphas.sigma_in,
                                                         alphas, FALSE)]
    /\ UNCHANGED tau
    /\ CostFrame

\* compute_mi_cost(frame): project_point_cloud(), then the estimate
CallComputeMiCost ==
    /\ \E k \in 1..num_frames :
          LET run == ProjectorRun(heap[tau], pcs, Tables)
          IN  /\ SetProjection(run)
              /\ cost_call' = [op |-> "compute_mi_cost", frame |-> k,
                               result |-> ComputeMiCost(run.tabs, k)]
    /\ UNCHANGED <<heap, tau>>
    /\ CostFrame

\* compute_conv_cost(sigma_in, frame)
CallComputeConvCost ==
    /\ \E k \in 1..num_frames, sigma_in \in SigmaChoices :
          cost_call' = [op |-> "compute_conv_cost", frame |-> k,
                        sigma_in |-> sigma_in,
                        result |-> ComputeConvCost(Tables, pcs_edge_masks,
                                                   imgs_edges, sigma_in, k)]
    /\ UNCHANGED <<heap, tau, R, T, tables>>
    /\ CostFrame

\* compute_corresp_cost()
CallComputeCorrespCost ==
    /\ cost_call' = [op |-> "compute_corresp_cost",
                     result |-> ComputeCorrespCost(R, T, correspondences)]
    /\ UNCHANGED <<heap, tau, R, T, tables>>
    /\ CostFrame

\* compute_chamfer_dists()
CallComputeChamferDists ==
    /\ cost_call' = [op |-> "compute_chamfer_dists",
                     result |-> ComputeChamferDists(Tables, pcs_edge_masks,
                                                    imgs_edges)]
    /\ UNCHANGED <<heap, tau, R, T, tables>>
    /\ CostFrame

\* detect_pc_edges(pc, thr) of a three-point cloud, from its scores on
CallDetectPcEdges ==
    /\ \E center_scores \in ScoreChoices, planar_scores \in ScoreChoices,
          thr \in ThrChoices :
          cost_call' = [op |-> "detect_pc_edges",
                        scores |-> CombinedScores(center_scores, planar_scores),
                        thr |-> thr,
                        result |-> DetectPcEdges(center_scores, planar_scores, thr)]
    /\ UNCHANGED <<heap, tau, R, T, tables>>
    /\ CostFrame

NextCost ==
    \/ CallLossScaled
    \/ CallLossTranslation
    \/ CallComputeMiCost
    \/ CallComputeConvCost
    \/ CallComputeCorrespCost
    \/ CallComputeChamferDists
    \/ CallDetectPcEdges

SpecCost == InitCost /\ [][NextCost]_vars

(***************************************************************************)
(* select_correspondences, as __init__ calls it after the first            *)
(* projection.  One pass of its while loop shows the image, lets the mouse *)
(* callback run and reads one key.                                         *)
(***************************************************************************)
\* the image the loop shows: img_gray on an even points_selected, else
\* img_synthetic
ImgName(selected) == IF selected % 2 = 0 THEN "gray" ELSE "synthetic"

QuitAllowedAlways(selected) == TRUE

\* key == ord('q'): the loop breaks when points_selected is even
QuitAllowed(selected) == selected % 2 = 0

\* squared distance of the click xy and a projected pixel
SqDistTo(px, xy) ==
    LET dx == FracAdd(px[1], FracInt(-xy[1]))
        dy == FracAdd(px[2], FracInt(-xy[2]))
    IN  FracAdd(FracMul(dx, dx), FracMul(dy, dy))

\* pc_pixel_tree.query(click, 1): the points whose pixel is nearest to the
\* click; the tree returns one of them
Nearest(pixels, xy) ==
    {i \in 1..Len(pixels) :
        \A j \in 1..Len(pixels) :
            SqDistTo(pixels[i], xy).n * SqDistTo(pixels[j], xy).d
                <= SqDistTo(pixels[j], xy).n * SqDistTo(pixels[i], xy).d}

\* the pairs of a stored (gray_pixels, lidar_points), by position
Matches(gray, lidar) ==
    [p \in 1..(IF Len(gray) <= Len(lidar) THEN Len(gray) ELSE Len(lidar)) |->
        Match(gray[p], lidar[p])]

\* the pixels a click may land on
ClickChoices == { <<0, 0>>, <<3, 1>> }

\* select_correspondences is entered: tau = 0, the Projector run once, no
\* edge detected yet
InitSelect ==
    /\ pcs \in CostPcsChoices
    /\ heap = [r \in Refs |-> IF r = 1 THEN <<0, 0, 0, 0, 0, 0>> ELSE None]
    /\ LET run == ProjectorRun(<<0, 0, 0, 0, 0, 0>>, pcs,
                               [cam |-> <<>>, pix |-> <<>>, mask |-> <<>>])
       IN  /\ R = run.R
           /\ T = run.T
           /\ points_cam_frame = run.tabs.cam
           /\ projected_points = run.tabs.pix
           /\ projection_mask = run.tabs.mask
    /\ tau = 1
    /\ tau_preoptimize = 0
    /\ numpoints_preopt = <<>>
    /\ initial_simplex = <<>>
    /\ alpha_mi = FALSE
    /\ call = "none"
    /\ pc = "idle"
    /\ nm_next = 1
    /\ nm_iters = 0
    /\ nm_best = None
    /\ last_op = "init"
    /\ proposal = None
    /\ tau_entry = None
    /\ restart_tau = None
    /\ num_calls = 0
    /\ num_restarts = 0
    /\ correspondences = <<>>
    /\ pcs_edge_masks = None
    /\ imgs_edges = None
    /\ cost_call = NoCall
    /\ frame_idx = 1
    /\ points_selected = 0
    /\ curr_img_name = "gray"
    /\ refPt = <<0, 0>>
    /\ refPt_3D = <<0, 0, 0>>
    /\ gray_pixels = <<>>
    /\ lidar_pixels = <<>>
    /\ lidar_points = <<>>
    /\ picked = <<>>
    /\ confirmations = <<>>

\* what select_correspondences leaves alone
SelectFrame ==
    UNCHANGED <<pcs, heap, tau, tau_preoptimize, R, T, tables,
                numpoints_preopt, initial_simplex, alpha_mi, call, pc, nm,
                last_op, proposal, tau_entry, restart_tau, num_calls,
                num_restarts, pcs_edge_masks, imgs_edges, cost_call>>

\* correspondence_cb on EVENT_LBUTTONDOWN at (x, y), during cv.waitKey
Click ==
    /\ frame_idx <= num_frames
    /\ \E xy \in ClickChoices :
          IF curr_img_name = "gray"
          THEN refPt' = xy /\ refPt_3D' = refPt_3D
          ELSE \E i \in Nearest(projected_points[frame_idx], xy) :
                  /\ refPt' = IntPixel(projected_points[frame_idx][i])
                  /\ refPt_3D' = pcs[frame_idx][i]
    /\ UNCHANGED <<correspondences, frame_idx, points_selected, curr_img_name,
                   gray_pixels, lidar_pixels, lidar_points, picked,
                   confirmations>>
    /\ SelectFrame

\* key == ord('y'): the point shown is confirmed; the next pass of the loop
\* picks the image by the new points_selected
KeyY ==
    /\ frame_idx <= num_frames
    /\ points_selected < MaxConfirm
    /\ points_selected' = points_selected + 1
    /\ IF curr_img_name = "synthetic"
       THEN /\ lidar_pixels' = Append(lidar_pixels, refPt)
            /\ lidar_points' = Append(lidar_points, refPt_3D)
            /\ gray_pixels' = gray_pixels
       ELSE /\ gray_pixels' = Append(gray_pixels, refPt)
            /\ UNCHANGED <<lidar_pixels, lidar_points>>
    /\ confirmations' = Append(confirmations, curr_img_name)
    /\ curr_img_name' = ImgName(points_selected')
    /\ UNCHANGED <<correspondences, frame_idx, refPt, refPt_3D, picked>>
    /\ SelectFrame

\* key == ord('q'): on an even points_selected the loop breaks, the frame's
\* lists are appended to self.correspondences and the next frame starts
\* with empty lists; otherwise "Uneven number of points" is printed
KeyQ ==
    /\ frame_idx <= num_frames
    /\ IF QuitAllowed(points_selected)
       THEN /\ correspondences' =
                   Append(correspondences, Matches(gray_pixels, lidar_points))
            /\ picked' = Append(picked, [gray_pixels |-> gray_pixels,
                                         lidar_points |-> lidar_points])
            /\ frame_idx' = frame_idx + 1
            /\ gray_pixels' = <<>>
            /\ lidar_pixels' = <<>>
            /\ lidar_points' = <<>>
            /\ confirmations' = <<>>
            /\ curr_img_name' = ImgName(points_selected)
            /\ UNCHANGED <<points_selected, refPt, refPt_3D>>
       ELSE UNCHANGED <<correspondences, picker>>
    /\ SelectFrame

NextSelect ==
    \/ Click
    \/ KeyY
    \/ KeyQ

SpecSelect == InitSelect /\ [][NextSelect]_vars

(***************************************************************************)
(* Properties.                                                             *)
(***************************************************************************)
\* the tables the Projector builds from nothing for tau value t
ProjectionOf(t) ==
    ProjectorRun(t, pcs, [cam |-> <<>>, pix |-> <<>>, mask |-> <<>>])

\* the tau a loss evaluation was asked to evaluate, in unscaled units
ProposedTau ==
    IF call = "ls_optimize" THEN Multiply(proposal, tau_ord_mags)
    ELSE <<tau_entry[1], tau_entry[2], tau_entry[3],
           proposal[1], proposal[2], proposal[3]>>

\* C1: for every frame k and point i, projection_mask[k][i] is true exactly
\* when the point's camera-frame z is > 0 and its projected pixel (x, y)
\* satisfies 0 <= x <= W and 0 <= y <= H; nothing else enters the mask.
C1_MaskIsFrustumTest ==
    \A k \in 1..Len(projection_mask) :
        \A i \in 1..Len(projection_mask[k]) :
            LET z == points_cam_frame[k][i][3]
                x == projected_points[k][i][1]
                y == projected_points[k][i][2]
            IN  projection_mask[k][i] <=>
                    /\ z > 0
                    /\ x.d > 0 /\ 0 <= x.n /\ x.n <= ImgW * x.d
                    /\ y.d > 0 /\ 0 <= y.n /\ y.n <= ImgH * y.d

\* C1 witness: a projection with a point on the right border (x = W) that is
\* in the mask, and a point behind the camera whose pixel lies inside the
\* image and that is not in the mask
C1_Witness ==
    /\ \E k \in 1..Len(projection_mask) : \E i \in 1..Len(projection_mask[k]) :
          /\ projection_mask[k][i]
          /\ projected_points[k][i][1] = [n |-> ImgW, d |-> 1]
    /\ \E k \in 1..Len(projection_mask) : \E i \in 1..Len(projection_mask[k]) :
          /\ ~projection_mask[k][i]
          /\ points_cam_frame[k][i][3] < 0
          /\ InsideMaskX(projected_points[k][i])
          /\ InsideMaskY(projected_points[k][i])

\* C2: after any sequence of project_point_cloud calls and loss evaluations
\* the three derived tables hold one entry per frame, and frame k's entries
\* all have the length N_k of frame k's point cloud.
C2_TablesOnePerFrame ==
    /\ Len(points_cam_frame) = num_frames
    /\ Len(projected_points) = num_frames
    /\ Len(projection_mask) = num_frames
    /\ \A k \in 1..num_frames :
          /\ Len(points_cam_frame[k]) = Len(pcs[k])
          /\ Len(projected_points[k]) = Len(pcs[k])
          /\ Len(projection_mask[k]) = Len(pcs[k])

\* C2 witness: the Projector has run many times (a loss evaluation after the
\* initial simplex, with the MI term re-projecting per frame) on frames of
\* different sizes
C2_Witness ==
    /\ last_op = "loss"
    /\ nm_iters >= 1
    /\ alpha_mi
    /\ Len(pcs[1]) # Len(pcs[2])

\* C3: a project_point_cloud call directly after another one, tau unchanged,
\* leaves R, T and the three derived tables as the first call left them.
C3_ProjectorIdempotent ==
    [][(last_op \in {"project", "project_again"} /\ last_op' = "project_again")
          => (R' = R /\ T' = T /\ tables' = tables)]_vars

\* C3 witness: two Projector calls in a row after an optimize call returned,
\* with some point in the frustum
C3_Witness ==
    /\ last_op = "project_again"
    /\ num_calls >= 1
    /\ \E k \in 1..Len(projection_mask) : NumValid(projection_mask[k]) > 0

\* C4: whenever the Projector runs during optimization for a tau under which
\* a frame keeps fewer than 10% of its points in the frustum, it fails with
\* BadProjection: no cost term is evaluated on such a projection.
C4_DegenerateProjectionRaises ==
    ~(last_op = "loss" /\ Degenerate(projection_mask))

\* C5: throughout an optimize call the value BadProjection's handler would
\* perturb, tau_preoptimize, is the tau the call was entered with; loss
\* evaluations do not change it.
C5_PreoptimizeIsEntryTau ==
    pc = "minimize" => heap[tau_preoptimize] = tau_entry

RestartBudget == 2

C8_RecoversFromZeroPoints ==
    (last_op = "return" /\ call = "ls_optimize" /\ \A k \in 1..num_frames :
                  NumValid(ProjectionOf(tau_entry).tabs.mask[k]) = 0)
        => (num_restarts > 0 /\ ~Degenerate(ProjectionOf(heap[tau]).tabs.mask))

\* C10: in every loss evaluation the cost terms read R, T and projection
\* tables built by the Projector from the proposed tau in unscaled units.
C10_CostsReadProposedTau ==
    last_op = "loss" =>
        /\ R = ProjectionOf(ProposedTau).R
        /\ T = ProjectionOf(ProposedTau).T
        /\ Tables = ProjectionOf(ProposedTau).tabs

\* C10 witness: a loss evaluation of ls_optimize after the initial simplex,
\* at a proposal whose unscaled tau differs from the working vector, from the
\* entry tau and from the pre-evaluation tables' tau
C10_Witness ==
    /\ last_op = "loss"
    /\ call = "ls_optimize"
    /\ nm_iters >= 1
    /\ ~alpha_mi
    /\ ProposedTau # proposal
    /\ ProjectionOf(ProposedTau).tabs # ProjectionOf(tau_entry).tabs

(***************************************************************************)
(* Properties of the cost functions (SpecCost).                            *)
(***************************************************************************)
\* the calibrator with frame k as its only frame
FrameOnly(cal, k) ==
    [tabs |-> [cam |-> <<cal.tabs.cam[k]>>, pix |-> <<cal.tabs.pix[k]>>,
               mask |-> <<cal.tabs.mask[k]>>],
     R |-> cal.R, T |-> cal.T, corr |-> <<cal.corr[k]>>,
     edge_masks |-> <<cal.edge_masks[k]>>, edges |-> <<cal.edges[k]>>]

RECURSIVE SumOfFrames(_, _, _)
\* alpha_corr * corr_k and chamfer_k, each from frame k's data only, summed
\* over the frames k, k + 1, ...
SumOfFrames(cal, alpha_corr, k) ==
    IF k > Len(cal.corr)
    THEN [corr |-> Surd(0, FracInt(0)), chamfer |-> FracInt(0)]
    ELSE LET one == FrameOnly(cal, k)
             rest == SumOfFrames(cal, alpha_corr, k + 1)
         IN  [corr |-> SurdAdd(SurdScale(ComputeCorrespCost(one.R, one.T,
                                                            one.corr).value,
                                         alpha_corr),
                               rest.corr),
              chamfer |-> FracAdd(ComputeChamferDists(one.tabs, one.edge_masks,
                                                      one.edges).value,
                                  rest.chamfer)]

\* frame k has a picked pair and an edge point drawn inside the image
FrameHasData(cal, k) ==
    /\ cal.corr[k] # <<>>
    /\ ValidEdgePoints(cal.tabs, cal.edge_masks, k) # {}
    /\ DrawEdgePointsBinary(cal.tabs, cal.edge_masks, k).outcome = "returned"

\* C11: a loss evaluation's correspondence and chamfer components are the
\* sums over the frames of the frame's own term: alpha_corr * corr_k from
\* frame k's pairs only and chamfer_k from frame k's edge pixels only, each
\* frame counted once.
C11_LossSumsPerFrameTerms ==
    (/\ cost_call.op = "loss_scaled"
     /\ cost_call.alphas.corr # 0
     /\ \A k \in 1..num_frames : FrameHasData(Self, k))
    => /\ cost_call.result.outcome = "returned"
       /\ SurdEq(cost_call.result.corr,
                 SumOfFrames(Self, cost_call.alphas.corr, 1).corr)
       /\ cost_call.result.chamfer = SumOfFrames(Self, cost_call.alphas.corr, 1).chamfer

\* C12: with alpha_mi = alpha_gmm = 0, alpha_corr = 1 and one pair picked
\* that re-projects onto its pixel, the total cost of loss_scaled is exactly
\* -3 * sqrt(W^2 + H^2).
C12_CorrespondenceOnlyTotal ==
    (/\ cost_call.op = "loss_scaled"
     /\ cost_call.alphas.mi = 0 /\ cost_call.alphas.gmm = 0
     /\ cost_call.alphas.corr = 1
     /\ num_frames = 1
     /\ Len(correspondences[1]) = 1
     /\ PixelDistance(R, T, correspondences[1][1]) = FracInt(0))
    => /\ cost_call.result.outcome = "returned"
       /\ SurdEq(TotalCost(cost_call.result), Surd(-3, FracInt(0)))

\* every picked pair, as <<frame, index>>
AllPairs ==
    UNION {{<<k, p>> : p \in 1..Len(correspondences[k])} : k \in 1..num_frames}

\* the L1 distance of pair kp's pixel and its lidar point re-projected with
\* the current R, T and K
PairDistance(kp) ==
    LET m == correspondences[kp[1]][kp[2]]
        px == Pixel(CamPoint(R, T, m.lidar))
    IN  FracAdd(FracAbs(FracAdd(px[1], FracInt(-m.gray[1]))),
                FracAbs(FracAdd(px[2], FracInt(-m.gray[2]))))

RECURSIVE SumRho(_)
\* the sum of rho(d_p) over a set of pairs: d when d <= 5, else d * d
SumRho(pairs) ==
    IF pairs = {} THEN FracInt(0)
    ELSE LET kp == CHOOSE q \in pairs : TRUE
             d == PairDistance(kp)
         IN  FracAdd(IF d.d # 0 /\ d.n <= 5 * d.d THEN d ELSE FracMul(d, d),
                     SumRho(pairs \ {kp}))

C14_MiZeroOnFewPoints ==
    (/\ cost_call.op = "compute_mi_cost"
     /\ cost_call.result.outcome = "returned"
     /\ NumValid(projection_mask[cost_call.frame]) <= 2)
    => cost_call.result.kind = "zero"

\* C15: when the frames have no point-cloud edge points, a loss evaluation
\* raises nothing and its edge costs are zero: the chamfer component is a
\* number, and the total well defined.
C15_EmptyEdgeSetGivesZero ==
    (/\ cost_call.op = "loss_scaled"
     /\ cost_call.alphas.mi = 0 /\ cost_call.alphas.corr = 0
     /\ \A k \in 1..num_frames : EdgeIdxs(pcs_edge_masks, k) = {})
    => /\ cost_call.result.outcome = "returned"
       /\ cost_call.result.chamfer = FracInt(0)

C17_ThresholdKeepsEqualScore ==
    (/\ cost_call.op = "detect_pc_edges"
     /\ \E i \in 1..Len(cost_call.scores) : FracGt(cost_call.scores[i], cost_call.thr))
    => LET keep == [i \in 1..Len(cost_call.scores) |->
                       FracGt(cost_call.scores[i], cost_call.thr)
                       \/ cost_call.scores[i] = cost_call.thr]
       IN  /\ cost_call.result.outcome = "returned"
           /\ cost_call.result.pc_edge_points
                  = Filtered([i \in 1..Len(keep) |-> i], keep)
           /\ cost_call.result.pc_edge_scores = Filtered(cost_call.scores, keep)

\* C18: the cost compute_conv_cost returns sums the contribution of every
\* in-frustum edge point with an image-edge pixel in its window, also when
\* two of them project to the same integer pixel.
C18_ConvCostAccumulates ==
    (cost_call.op = "compute_conv_cost" /\ cost_call.result.outcome = "returned")
    => cost_call.result.counted
           = ContributingPoints(Tables, pcs_edge_masks, imgs_edges,
                                cost_call.sigma_in, cost_call.frame)

\* C19: the correspondence cost is negative for every set of pairs and
\* every tau.
C19_CorrespCostNegative ==
    (cost_call.op = "compute_corresp_cost" /\ cost_call.result.outcome = "returned")
    => SurdNegative(cost_call.result.value)

\* C20: with no pair picked and alpha_corr = 0, the correspondence term of
\* a loss evaluation (loss_scaled or loss_translation) raises nothing.
C20_EmptyCorrespondencesNoRaise ==
    (/\ cost_call.op \in {"loss_scaled", "loss_translation"}
     /\ cost_call.alphas.corr = 0
     /\ \A k \in 1..num_frames : correspondences[k] = <<>>)
    => cost_call.result.outcome \notin {"ValueError", "ZeroDivisionError"}

\* C21: every point the Projector marks in-frustum has a pixel whose integer
\* truncation indexes the img_h x img_w image arrays, so the lookups and
\* writes of compute_mi_cost, compute_conv_cost and draw_edge_points_binary
\* never raise IndexError.
C21_MaskedPixelsIndexImage ==
    cost_call.op # "none"
    => /\ \A k \in 1..num_frames : \A i \in 1..Len(projection_mask[k]) :
              projection_mask[k][i] => InImage(IntPixel(projected_points[k][i]))
       /\ cost_call.result.outcome # "IndexError"

\* C22: when ls_optimize has returned tau, R and T are tau_to_transform of
\* the returned tau and the tables are the Projector's for the returned tau.
C22_ReturnedTauIsProjected ==
    (last_op = "return" /\ call = "ls_optimize")
    => /\ R = ProjectionOf(heap[tau]).R
       /\ T = ProjectionOf(heap[tau]).T
       /\ Tables = ProjectionOf(heap[tau]).tabs

\* C23: in select_correspondences the confirmations of a frame alternate
\* between the grayscale and the synthetic image, starting with grayscale;
\* a frame is left only after an even number of them; every stored
\* correspondence has as many gray pixels as lidar points, in every frame.
C23_PickedPairsAreBalanced ==
    /\ \A k \in 1..Len(picked) :
          Len(picked[k].gray_pixels) = Len(picked[k].lidar_points)
    /\ frame_idx <= num_frames =>
          /\ \A j \in 1..Len(confirmations) :
                confirmations[j] = IF j % 2 = 1 THEN "gray" ELSE "synthetic"
          /\ Len(gray_pixels) + Len(lidar_points) = Len(confirmations)
          /\ Len(gray_pixels) - Len(lidar_points) = Len(confirmations) % 2
          /\ Len(lidar_pixels) = Len(lidar_points)

\* two frames have been picked, each with at least one pair
C23_Witness ==
    /\ Len(picked) >= 2
    /\ Len(picked[1].gray_pixels) >= 1
    /\ Len(picked[2].gray_pixels) >= 1
    /\ Len(picked[2].lidar_points) >= 1

====
